---- MODULE Spec2Model ----
(***************************************************************************)
(* The Membrane webhook receiver: HMAC verification of the request body,   *)
(* JSON parsing, dispatch on the event type and the notification emails    *)
(* sent through the Membrane SDK, in its three deployments (Azure          *)
(* Functions, AWS Lambda, Google Cloud Functions).                         *)
(***************************************************************************)
EXTENDS Integers, Sequences, FiniteSets, TLC

\* ------------------------------------------------------------------ bounds

\* Bytes of a digest (SHA-256 has 32; the comparison logic is per byte).
DigestLen == 2
\* Longest orgAdmins list among the events sent.
MaxAdmins == 2
\* Requests one process handles before the model stops delivering more.
MaxReqs == 2

\* ------------------------------------------------------------------ texts
\* A request body on the wire is a sequence of tokens: WS is insignificant
\* whitespace, Junk a byte sequence that is not JSON, and a token i >= 1 the
\* compact serialization of the JSON value JsonValues[i].

WS == 0
Junk == 0 - 1

Variants == {"azure", "aws", "gcp"}

\* ------------------------------------------------------------------ JSON values
\* A value is [k |-> kind, f |-> fields]; f is the record of an object's
\* properties (a property the JSON text lacks is not in its DOMAIN).

NoFields == [x \in {} |-> 0]

JNull == [k |-> "null", f |-> NoFields]
JNumber == [k |-> "number", f |-> NoFields]
JString == [k |-> "string", f |-> NoFields]
JArray == [k |-> "array", f |-> NoFields]
JBoolean == [k |-> "boolean", f |-> NoFields]
JObj(fields) == [k |-> "object", f |-> fields]

OrgAcme == [id |-> "o1", name |-> "Acme Inc"]
OrgBeta == [id |-> "o2", name |-> "Beta LLC"]
Issuer == [name |-> "Ivy", email |-> "ivy@x.com"]

AdminEntry(i) ==
    [email |-> IF i = 1 THEN "adm1@x.com" ELSE IF i = 2 THEN "adm2@x.com" ELSE "adm3@x.com",
     orgs |-> IF i = 2 THEN <<OrgBeta>> ELSE <<OrgAcme, OrgBeta>>]

AccessRequested(n) ==
    JObj([type |-> "org-access-requested",
          user |-> [id |-> "u1", email |-> "req@x.com"],
          orgAdmins |-> [i \in 1..n |-> AdminEntry(i)]])

FixedValues ==
    << JNull,
       JNumber,
       JString,
       JArray,
       JObj(NoFields),
       JObj([type |-> "org-deleted"]),
       \* 7: user-invited-to-org, every required field
       JObj([type |-> "user-invited-to-org", invitationUrl |-> "https://inv/1",
             issuer |-> Issuer, user |-> [email |-> "a@x.com"], org |-> OrgAcme]),
       \* 8: with the optional trialEndDate
       JObj([type |-> "user-invited-to-org", invitationUrl |-> "https://inv/1",
             issuer |-> Issuer, user |-> [email |-> "a@x.com"],
             org |-> [id |-> "o1", name |-> "Acme Inc", trialEndDate |-> "2026-01-01"]]),
       \* 9: no invitationUrl
       JObj([type |-> "user-invited-to-org",
             issuer |-> Issuer, user |-> [email |-> "a@x.com"], org |-> OrgAcme]),
       \* 10: no user
       JObj([type |-> "user-invited-to-org", invitationUrl |-> "https://inv/1",
             issuer |-> Issuer, org |-> OrgAcme]),
       \* 11: no issuer
       JObj([type |-> "user-invited-to-org", invitationUrl |-> "https://inv/1",
             user |-> [email |-> "a@x.com"], org |-> OrgAcme]),
       \* 12: org-created, the example event of the specification
       JObj([type |-> "org-created", name |-> "Acme", workspaceName |-> "ws1",
             orgId |-> "o1", org |-> OrgAcme, user |-> [email |-> "a@x.com"]]),
       \* 13: with every optional field
       JObj([type |-> "org-created", name |-> "Acme", workspaceName |-> "ws1",
             orgId |-> "o1",
             org |-> [id |-> "o1", name |-> "Acme Inc", domains |-> <<"x.com", "y.com">>,
                      trialEndDate |-> "2026-01-01"],
             user |-> [name |-> "Ann", email |-> "a@x.com"]]),
       \* 14: no org
       JObj([type |-> "org-created", name |-> "Acme", workspaceName |-> "ws1",
             orgId |-> "o1", user |-> [email |-> "a@x.com"]]),
       \* 15: no workspaceName
       JObj([type |-> "org-created", name |-> "Acme",
             orgId |-> "o1", org |-> OrgAcme, user |-> [email |-> "a@x.com"]]),
       \* 16: org-access-requested without orgAdmins
       JObj([type |-> "org-access-requested",
             user |-> [id |-> "u1", email |-> "req@x.com", name |-> "Rob"]]),
       \* 17: without user
       JObj([type |-> "org-access-requested",
             orgAdmins |-> <<AdminEntry(1)>>]),
       \* 18: first admin entry without orgs, second complete
       JObj([type |-> "org-access-requested",
             user |-> [id |-> "u1", email |-> "req@x.com"],
             orgAdmins |-> <<[email |-> "adm1@x.com"], AdminEntry(2)>>]),
       \* 19: user-invited-to-org whose optional trialEndDate is the empty string
       JObj([type |-> "user-invited-to-org", invitationUrl |-> "https://inv/1",
             issuer |-> Issuer, user |-> [email |-> "a@x.com"],
             org |-> [id |-> "o1", name |-> "Acme Inc", trialEndDate |-> ""]]),
       \* 20: org-created whose optional fields are present and empty
       JObj([type |-> "org-created", name |-> "Acme", workspaceName |-> "ws1",
             orgId |-> "o1",
             org |-> [id |-> "o1", name |-> "Acme Inc", domains |-> <<>>,
                      trialEndDate |-> ""],
             user |-> [name |-> "", email |-> "a@x.com"]]),
       \* 21: org-access-requested by a named user, one admin
       JObj([type |-> "org-access-requested",
             user |-> [id |-> "u1", email |-> "req@x.com", name |-> "Rob"],
             orgAdmins |-> <<AdminEntry(2)>>]),
       \* 22: the literal true
       JBoolean >>

NumFixed == Len(FixedValues)

\* The fixed values, then org-access-requested with 0..MaxAdmins admins.
JsonValues ==
    [i \in 1..(NumFixed + MaxAdmins + 1) |->
        IF i <= NumFixed THEN FixedValues[i] ELSE AccessRequested(i - NumFixed - 1)]

NumValues == Len(JsonValues)
ValueIds == 1..NumValues

Has(rec, key) == key \in DOMAIN rec

\* ------------------------------------------------------------------ JSON text

StripWs(t) == SelectSeq(t, LAMBDA x : x # WS)

\* JSON.parse: the value of a text, or a SyntaxError (ok = FALSE).
JSONparse(t) ==
    LET s == StripWs(t)
    IN  IF Len(s) = 1 /\ s[1] \in ValueIds
        THEN [ok |-> TRUE, v |-> s[1]]
        ELSE [ok |-> FALSE, v |-> 0]

\* JSON.stringify: the compact text of a value, no whitespace.
JSONstringify(v) == <<v>>

\* ------------------------------------------------------------------ HMAC

HexDigits == <<"0", "1", "2", "3", "4", "5", "6", "7", "8", "9",
               "a", "b", "c", "d", "e", "f">>

\* digest("hex"): two lowercase hexadecimal digits per byte.
RECURSIVE Hex(_)
Hex(bytes) ==
    IF bytes = <<>> THEN <<>>
    ELSE <<HexDigits[(Head(bytes) \div 16) + 1], HexDigits[(Head(bytes) % 16) + 1]>>
         \o Hex(Tail(bytes))

TokCode(x) == IF x = WS THEN 32 ELSE IF x = Junk THEN 63 ELSE 100 + x

SecretCode(s) == IF s = "k1" THEN 7 ELSE IF s = "k2" THEN 11 ELSE 0

RECURSIVE Mix(_, _, _)
Mix(t, h, m) ==
    IF t = <<>> THEN h
    ELSE Mix(Tail(t), (h * m + TokCode(Head(t))) % 256, m)

\* A keyed digest of DigestLen bytes, standing for HMAC-SHA256(secret, text).
HmacSha256(secret, text) ==
    [i \in 1..DigestLen |-> Mix(text, (SecretCode(secret) + 17 * i) % 256, 29 + 2 * i)]

\* Buffer.from(s, "utf8"): the bytes of a string; a character outside ASCII
\* takes two bytes.
Utf8(c) ==
    CASE c = "0" -> <<48>> [] c = "1" -> <<49>> [] c = "2" -> <<50>> [] c = "3" -> <<51>>
      [] c = "4" -> <<52>> [] c = "5" -> <<53>> [] c = "6" -> <<54>> [] c = "7" -> <<55>>
      [] c = "8" -> <<56>> [] c = "9" -> <<57>>
      [] c = "a" -> <<97>> [] c = "b" -> <<98>> [] c = "c" -> <<99>> [] c = "d" -> <<100>>
      [] c = "e" -> <<101>> [] c = "f" -> <<102>>
      [] c = "A" -> <<65>> [] c = "B" -> <<66>> [] c = "C" -> <<67>> [] c = "D" -> <<68>>
      [] c = "E" -> <<69>> [] c = "F" -> <<70>>
      [] c = "e_acute" -> <<195, 169>>
      [] OTHER -> <<122>>

RECURSIVE BufferFrom(_)
BufferFrom(s) == IF s = <<>> THEN <<>> ELSE Utf8(Head(s)) \o BufferFrom(Tail(s))

\* crypto.timingSafeEqual on two buffers of equal length.
timingSafeEqual(a, b) == \A i \in 1..Len(a) : a[i] = b[i]

Upper(c) ==
    CASE c = "a" -> "A" [] c = "b" -> "B" [] c = "c" -> "C" [] c = "d" -> "D"
      [] c = "e" -> "E" [] c = "f" -> "F" [] OTHER -> c

UpperSeq(s) == [i \in 1..Len(s) |-> Upper(s[i])]

\* A header is [present, chars]; an absent header reads as null/undefined.
Falsy(sig) == ~sig.present \/ sig.chars = <<>>

\* verifySignature with the digest rendered in upper-case hexadecimal.
verifySignatureUpperHex(rawBody, signatureHex, secret) ==
    IF secret = "" THEN TRUE
    ELSE IF Falsy(signatureHex) THEN FALSE
    ELSE LET expected == UpperSeq(Hex(HmacSha256(secret, rawBody)))
             a == BufferFrom(signatureHex.chars)
             b == BufferFrom(expected)
         IN  Len(a) = Len(b) /\ timingSafeEqual(a, b)

\* verifySignature comparing only as many bytes as the header supplies.
verifySignaturePrefix(rawBody, signatureHex, secret) ==
    IF secret = "" THEN TRUE
    ELSE IF Falsy(signatureHex) THEN FALSE
    ELSE LET expected == Hex(HmacSha256(secret, rawBody))
             a == BufferFrom(signatureHex.chars)
             b == BufferFrom(expected)
         IN  Len(a) <= Len(b) /\ timingSafeEqual(a, b)

\* verifySignature letting a request without a header through.
verifySignatureNoHeaderPasses(rawBody, signatureHex, secret) ==
    IF secret = "" THEN TRUE
    ELSE IF Falsy(signatureHex) THEN TRUE
    ELSE LET expected == Hex(HmacSha256(secret, rawBody))
             a == BufferFrom(signatureHex.chars)
             b == BufferFrom(expected)
         IN  Len(a) = Len(b) /\ timingSafeEqual(a, b)

\* verifySignature enforcing a signature when no secret is configured.
verifySignatureEnforcing(rawBody, signatureHex, secret) ==
    IF Falsy(signatureHex) THEN FALSE
    ELSE LET expected == Hex(HmacSha256(secret, rawBody))
             a == BufferFrom(signatureHex.chars)
             b == BufferFrom(expected)
         IN  Len(a) = Len(b) /\ timingSafeEqual(a, b)

verifySignature(rawBody, signatureHex, secret) ==
    IF secret = "" THEN TRUE
    ELSE IF Falsy(signatureHex) THEN FALSE
    ELSE LET expected == Hex(HmacSha256(secret, rawBody))
             a == BufferFrom(signatureHex.chars)
             b == BufferFrom(expected)
         IN  Len(a) = Len(b) /\ timingSafeEqual(a, b)

\* A verifySignature that hands the two buffers to the comparison whatever
\* their lengths.
ComparedUnguarded(rawBody, signatureHex, secret) ==
    IF secret = "" \/ Falsy(signatureHex) THEN <<>>
    ELSE LET expected == Hex(HmacSha256(secret, rawBody))
             a == BufferFrom(signatureHex.chars)
             b == BufferFrom(expected)
         IN  <<Len(a), Len(b)>>

\* The byte lengths of the buffers verifySignature hands to
\* crypto.timingSafeEqual, which throws a RangeError when they differ;
\* <<>> when the comparison is not invoked.
Compared(rawBody, signatureHex, secret) ==
    IF secret = "" \/ Falsy(signatureHex) THEN <<>>
    ELSE LET expected == Hex(HmacSha256(secret, rawBody))
             a == BufferFrom(signatureHex.chars)
             b == BufferFrom(expected)
         IN  IF Len(a) = Len(b) THEN <<Len(a), Len(b)>> ELSE <<>>

\* ------------------------------------------------------------------ requests

\* Values whose wire text is also sent with surrounding whitespace.
PaddedIds == {6, 7, 12, NumFixed + 1, NumValues}

Bodies ==
    {<<i>> : i \in ValueIds} \cup {<<WS, i, WS>> : i \in PaddedIds}
    \cup {<<>>, <<Junk>>, <<7, Junk>>}

NoHeader == [present |-> FALSE, chars |-> <<>>]
SigOf(chars) == [present |-> TRUE, chars |-> chars]

FlipAt(s, n) == [i \in 1..Len(s) |-> IF i = n THEN (IF s[i] = "0" THEN "1" ELSE "0") ELSE s[i]]

\* The X-Signature headers a sender may attach to a body: none, empty, the
\* digest under the shared secret "k1", and near misses of it.
SigCandidates(body) ==
    LET E == Hex(HmacSha256("k1", body))
        n == Len(E)
    IN  { NoHeader,
          SigOf(<<>>),
          SigOf(E),
          SigOf(UpperSeq(E)),
          SigOf(FlipAt(E, 1)),
          SigOf(FlipAt(E, n)),
          SigOf(SubSeq(E, 1, n - 1)),
          SigOf(E \o <<"0">>),
          SigOf(<<"e_acute">> \o SubSeq(E, 3, n)),
          SigOf(Hex(HmacSha256("k2", body))),
          SigOf(Hex(HmacSha256("k1", StripWs(body)))) }

\* HTTP response bodies: a JSON object with one key, or plain text.
ErrorJson(m) == [kind |-> "json", key |-> "error", val |-> m]
OkJson == [kind |-> "json", key |-> "ok", val |-> "true"]
PlainText(m) == [kind |-> "text", key |-> "", val |-> m]

NoResp == [status |-> 0, body |-> PlainText("")]
NoMsg == [to |-> "", subject |-> <<>>, body |-> <<>>]

\* Requests one process may have in flight at once.
NumSlots == 2
Slots == 1..NumSlots

IdleReq ==
    [pc |-> "idle", method |-> "", wire |-> <<>>, sig |-> NoHeader,
     reqBody |-> 0, rawBody |-> <<>>, decoded |-> "never", verified |-> "no",
     event |-> 0, n |-> 0, i |-> 0, conn |-> "", msg |-> NoMsg,
     built |-> FALSE, attempts |-> 0, resp |-> NoResp, calls |-> <<>>, logs |-> <<>>,
     cmp |-> <<>>]

VARIABLES
    platform,                   \* which deployment's handler runs
    WEBHOOK_SECRET,             \* process.env.WEBHOOK_SECRET || ""
    GMAIL_CONNECTION_ID,        \* process.env.GMAIL_CONNECTION_ID || ""
    MEMBRANE_WORKSPACE_SECRET,  \* process.env.MEMBRANE_WORKSPACE_SECRET || ""
    membrane,                   \* the module-level client: 0 is null, else its token
    tokens,                     \* JWT tokens generated so far
    handled,                    \* requests delivered so far
    loggerFault,                \* the handler's logger call that throws, "none" if none does
    clock,                      \* seconds since the process started
    iat,                        \* when the token of the module-level client was signed
    rq                          \* per request slot, the handler's local state

vars == <<platform, WEBHOOK_SECRET, GMAIL_CONNECTION_ID, MEMBRANE_WORKSPACE_SECRET,
          loggerFault, clock, membrane, tokens, iat, handled, rq>>

config == <<platform, WEBHOOK_SECRET, GMAIL_CONNECTION_ID, MEMBRANE_WORKSPACE_SECRET,
           loggerFault, clock>>

Init ==
    /\ platform \in Variants
    /\ WEBHOOK_SECRET \in {"", "k1"}
    /\ GMAIL_CONNECTION_ID \in {"", "conn-cfg"}
    /\ MEMBRANE_WORKSPACE_SECRET \in {"", "ws-secret"}
    /\ loggerFault = "none"
    /\ clock = 0
    /\ membrane = 0
    /\ tokens = 0
    /\ iat = 0
    /\ handled = 0
    /\ rq = [r \in Slots |-> IdleReq]

Log(lvl, m, arg) == [lvl |-> lvl, msg |-> m, arg |-> arg]

\* The error bodies: Azure returns plain text, AWS and Google Cloud JSON.
ErrorBody(m) == IF platform = "azure" THEN PlainText(m) ELSE ErrorJson(m)

Respond(q, status, body) == [q EXCEPT !.pc = "done", !.resp = [status |-> status, body |-> body]]

\* The body parser of the Functions Framework (application/json, strict):
\* an empty body reads as {}, a text that is not a JSON object or array is
\* rejected by the framework before the function runs.
FrameworkBodyParser(wire) ==
    IF StripWs(wire) = <<>> THEN [ok |-> TRUE, v |-> 5]
    ELSE LET p == JSONparse(wire)
         IN  IF p.ok /\ JsonValues[p.v].k \in {"object", "array"} THEN p
             ELSE [ok |-> FALSE, v |-> 0]

\* A request reaches the function: on Google Cloud the framework has parsed
\* the body first, or has rejected the request itself.
Deliver(r, body, sig, method) ==
    LET q == [IdleReq EXCEPT !.method = method, !.wire = body, !.sig = sig]
    IN  IF platform = "gcp"
        THEN LET p == FrameworkBodyParser(body)
             IN  IF p.ok
                 THEN rq' = [rq EXCEPT ![r] = [q EXCEPT !.pc = "method",
                                  !.reqBody = p.v, !.decoded = "beforeVerify"]]
                 ELSE rq' = [rq EXCEPT ![r] =
                                  Respond(q, 400, PlainText("Bad Request"))]
        ELSE rq' = [rq EXCEPT ![r] = [q EXCEPT !.pc = "verify"]]

Methods == IF platform = "gcp" THEN {"POST", "GET"} ELSE {"POST"}

\* The host delivers a request to the handler, one request at a time.
Receive(r) ==
    /\ rq[r].pc = "idle"
    /\ \A s \in Slots : rq[s].pc = "idle"
    /\ r = 1
    /\ handled < MaxReqs
    /\ handled' = handled + 1
    /\ \E body \in Bodies : \E sig \in SigCandidates(body) : \E method \in Methods :
          Deliver(r, body, sig, method)
    /\ UNCHANGED <<config, membrane, tokens, iat>>

\* A function without the method test: every method is verified and handled.
MethodCheckAllowsAll(r) ==
    /\ rq[r].pc = "method"
    /\ rq' = [rq EXCEPT ![r] = [rq[r] EXCEPT !.pc = "verify"]]
    /\ UNCHANGED <<config, membrane, tokens, iat, handled>>

\* Google Cloud only: reject everything but POST.
MethodCheck(r) ==
    /\ rq[r].pc = "method"
    /\ rq' = [rq EXCEPT ![r] =
                IF rq[r].method # "POST"
                THEN Respond(rq[r], 405, ErrorJson("Method not allowed"))
                ELSE [rq[r] EXCEPT !.pc = "verify"]]
    /\ UNCHANGED <<config, membrane, tokens, iat, handled>>

\* The text the handler takes as the raw body.
HandlerRawBody(q) ==
    IF platform = "gcp" THEN JSONstringify(q.reqBody) ELSE q.wire

\* Steps 1 and 2: the raw body and the header are read, the signature is
\* verified, and a failure is answered 401.
VerifyOutcome(q) ==
    LET raw == HandlerRawBody(q)
        ok == verifySignature(raw, q.sig, WEBHOOK_SECRET)
        q1 == [q EXCEPT !.rawBody = raw, !.verified = IF ok THEN "pass" ELSE "fail",
                        !.cmp = Compared(raw, q.sig, WEBHOOK_SECRET)]
    IN  IF ok THEN [q1 EXCEPT !.pc = "parse"]
        ELSE Respond([q1 EXCEPT !.logs = Append(@,
                         Log("warn", "Invalid X-Signature for Membrane webhook", ""))],
                     401, ErrorBody("Invalid signature"))

\* A handler that builds the Membrane client before it looks at the request.
VerifyStepEagerClient(q) == [VerifyOutcome(q) EXCEPT !.built = TRUE]

VerifyStep(q) == VerifyOutcome(q)

Verify(r) ==
    /\ rq[r].pc = "verify"
    /\ rq' = [rq EXCEPT ![r] = VerifyStep(rq[r])]
    /\ UNCHANGED <<config, membrane, tokens, iat, handled>>

\* Step 3: the event the handler dispatches on. Azure and AWS parse the raw
\* body; Google Cloud takes the body the framework parsed.
HandlerParse(q) ==
    IF platform = "gcp" THEN [ok |-> TRUE, v |-> q.reqBody] ELSE JSONparse(q.rawBody)

Parse(r) ==
    /\ rq[r].pc = "parse"
    /\ LET q == rq[r]
           p == HandlerParse(q)
       IN  rq' = [rq EXCEPT ![r] =
                IF p.ok
                THEN [q EXCEPT !.pc = "dispatch", !.event = p.v,
                               !.decoded = IF @ = "never" THEN "afterVerify" ELSE @]
                ELSE Respond([q EXCEPT !.logs = Append(@,
                                 Log("error", "Failed to parse webhook JSON", ""))],
                             400, ErrorBody("Invalid JSON"))]
    /\ UNCHANGED <<config, membrane, tokens, iat, handled>>

\* ------------------------------------------------------------------ dispatch

KnownTypes == {"user-invited-to-org", "org-access-requested", "org-created"}

\* event.type as the switch reads it: a property the value lacks is undefined.
TypeOf(v) == IF v.k = "object" /\ Has(v.f, "type") THEN v.f.type ELSE "undefined"

\* `${x.key}` in a template literal.
Str(rec, key) == IF Has(rec, key) THEN rec[key] ELSE "undefined"

\* x.key || fallback
OrElse(rec, key, fallback) == IF Has(rec, key) /\ rec[key] # "" THEN rec[key] ELSE fallback

\* The switch head and the entry log of each case read nested properties;
\* reading a property of null or undefined throws a TypeError, which the try
\* around the switch catches.
\* A switch head that tests `"type" in event`, which throws for every value
\* that is not an object.
DispatchThrowsOnPrimitives(v) ==
    \/ v.k \in {"null", "number", "string", "boolean"}
    \/ /\ TypeOf(v) = "user-invited-to-org"
       /\ (~Has(v.f, "user") \/ ~Has(v.f, "org"))
    \/ /\ TypeOf(v) = "org-access-requested"
       /\ (~Has(v.f, "user") \/ ~Has(v.f, "orgAdmins"))
    \/ /\ TypeOf(v) = "org-created"
       /\ (~Has(v.f, "org") \/ ~Has(v.f, "user"))

DispatchThrows(v) ==
    \/ v.k = "null"
    \/ /\ TypeOf(v) = "user-invited-to-org"
       /\ (~Has(v.f, "user") \/ ~Has(v.f, "org"))
    \/ /\ TypeOf(v) = "org-access-requested"
       /\ (~Has(v.f, "user") \/ ~Has(v.f, "orgAdmins"))
    \/ /\ TypeOf(v) = "org-created"
       /\ (~Has(v.f, "org") \/ ~Has(v.f, "user"))

\* A case that notifies only the first admin of the list.
AddresseesFirstOnly(v) ==
    IF TypeOf(v) = "org-access-requested"
    THEN (IF Len(v.f.orgAdmins) > 0 THEN 1 ELSE 0)
    ELSE IF TypeOf(v) \in KnownTypes THEN 1 ELSE 0

\* A dispatch that skips an event another request of the process has
\* already been answered for.
AddresseesOncePerEvent(v) ==
    IF \E s \in Slots : /\ rq[s].pc = "done"
                        /\ rq[s].event # 0
                        /\ JsonValues[rq[s].event] = v
    THEN 0
    ELSE IF TypeOf(v) = "org-access-requested" THEN Len(v.f.orgAdmins)
    ELSE IF TypeOf(v) \in KnownTypes THEN 1 ELSE 0

\* Emails the case will attempt.
Addressees(v) ==
    IF TypeOf(v) = "org-access-requested" THEN Len(v.f.orgAdmins)
    ELSE IF TypeOf(v) \in KnownTypes THEN 1 ELSE 0

EntryLog(v) ==
    CASE TypeOf(v) = "user-invited-to-org" -> Log("info", "User invited to org", "")
      [] TypeOf(v) = "org-access-requested" -> Log("info", "Org access requested", "")
      [] TypeOf(v) = "org-created" -> Log("info", "Org created", "")
      [] OTHER -> Log("info", "Unhandled Membrane event type", TypeOf(v))

\* The catch around the switch: whatever is thrown inside it and not caught
\* by a per-email catch is logged and answered 500.
OuterCatch(q) ==
    Respond([q EXCEPT !.logs = Append(@, Log("error", "Error processing Membrane webhook", ""))],
            500, ErrorBody("Processing error"))

\* Step 4: the switch on event.type, up to the first email of the case.
Dispatch(r) ==
    /\ rq[r].pc = "dispatch"
    /\ LET q == rq[r]
           v == JsonValues[q.event]
       IN  rq' = [rq EXCEPT ![r] =
                IF DispatchThrows(v)
                THEN Respond([q EXCEPT !.logs = Append(@,
                                 Log("error", "Error processing Membrane webhook", ""))],
                             500, ErrorBody("Processing error"))
                ELSE IF loggerFault = "entry" THEN OuterCatch(q)
                ELSE [q EXCEPT !.logs = Append(@, EntryLog(v)),
                               !.n = Addressees(v),
                               !.i = IF Addressees(v) > 0 THEN 1 ELSE 0,
                               !.pc = IF Addressees(v) > 0 THEN "send" ELSE "ack"]]
    /\ UNCHANGED <<config, membrane, tokens, iat, handled>>

\* ------------------------------------------------------------------ templates

RECURSIVE JoinWith(_, _)
JoinWith(lines, sep) ==
    IF lines = <<>> THEN <<>>
    ELSE IF Len(lines) = 1 THEN Head(lines)
    ELSE Head(lines) \o <<sep>> \o JoinWith(Tail(lines), sep)

\* An invitation whose trial line is not conditional.
InvitationEmailAlwaysTrial(e) ==
    [to |-> Str(e.user, "email"),
     subject |-> <<"You've been invited to join ", Str(e.org, "name")>>,
     body |-> <<"Hello,\n\nYou've been invited by ", Str(e.issuer, "name"), " (",
                Str(e.issuer, "email"), ") to join the organization \"",
                Str(e.org, "name"),
                "\".\n\nClick the link below to accept your invitation:\n",
                Str(e, "invitationUrl"), "\n\n">>
              \o <<"Note: This organization's trial ends on ", Str(e.org, "trialEndDate")>>
              \o <<"\n\nBest regards,\nThe Team">>]

InvitationEmail(e) ==
    [to |-> Str(e.user, "email"),
     subject |-> <<"You've been invited to join ", Str(e.org, "name")>>,
     body |-> <<"Hello,\n\nYou've been invited by ", Str(e.issuer, "name"), " (",
                Str(e.issuer, "email"), ") to join the organization \"",
                Str(e.org, "name"),
                "\".\n\nClick the link below to accept your invitation:\n",
                Str(e, "invitationUrl"), "\n\n">>
              \o (IF Has(e.org, "trialEndDate") /\ e.org.trialEndDate # ""
                  THEN <<"Note: This organization's trial ends on ", e.org.trialEndDate>>
                  ELSE <<"">>)
              \o <<"\n\nBest regards,\nThe Team">>]

\* An access request notification addressed to the requester.
AccessRequestEmailToRequester(e, admin) ==
    [to |-> Str(e.user, "email"),
     subject |-> <<"New Organization Access Request">>,
     body |-> <<"Hello,\n\nA user has requested access to your organization(s).\n\nRequester Details:\n- Email: ",
                Str(e.user, "email"), "\n- Name: ", OrElse(e.user, "name", "Not provided"),
                "\n- User ID: ", Str(e.user, "id"),
                "\n\nOrganizations they're requesting access to:\n">>
              \o JoinWith([j \in 1..Len(admin.orgs) |->
                              <<"- ", Str(admin.orgs[j], "name"), " (ID: ",
                                Str(admin.orgs[j], "id"), ")">>], "\n")
              \o <<"\n\nPlease review this request and take appropriate action in your admin dashboard.\n\nBest regards,\nThe Team">>]

\* An access request notification listing the organizations of the first
\* entry to every admin.
AccessRequestEmailFirstOrgs(e, admin) ==
    [to |-> Str(admin, "email"),
     subject |-> <<"New Organization Access Request">>,
     body |-> <<"Hello,\n\nA user has requested access to your organization(s).\n\nRequester Details:\n- Email: ",
                Str(e.user, "email"), "\n- Name: ", OrElse(e.user, "name", "Not provided"),
                "\n- User ID: ", Str(e.user, "id"),
                "\n\nOrganizations they're requesting access to:\n">>
              \o (LET first == IF Has(e.orgAdmins[1], "orgs") THEN e.orgAdmins[1].orgs
                                ELSE admin.orgs
                  IN  JoinWith([j \in 1..Len(first) |->
                                  <<"- ", Str(first[j], "name"), " (ID: ",
                                    Str(first[j], "id"), ")">>], "\n"))
              \o <<"\n\nPlease review this request and take appropriate action in your admin dashboard.\n\nBest regards,\nThe Team">>]

AccessRequestEmail(e, admin) ==
    [to |-> Str(admin, "email"),
     subject |-> <<"New Organization Access Request">>,
     body |-> <<"Hello,\n\nA user has requested access to your organization(s).\n\nRequester Details:\n- Email: ",
                Str(e.user, "email"), "\n- Name: ", OrElse(e.user, "name", "Not provided"),
                "\n- User ID: ", Str(e.user, "id"),
                "\n\nOrganizations they're requesting access to:\n">>
              \o JoinWith([j \in 1..Len(admin.orgs) |->
                              <<"- ", Str(admin.orgs[j], "name"), " (ID: ",
                                Str(admin.orgs[j], "id"), ")">>], "\n")
              \o <<"\n\nPlease review this request and take appropriate action in your admin dashboard.\n\nBest regards,\nThe Team">>]

WelcomeEmail(e) ==
    [to |-> Str(e.user, "email"),
     subject |-> <<"Welcome to ", Str(e.org, "name"), "!">>,
     body |-> <<"Hello ", OrElse(e.user, "name", "there"),
                ",\n\nCongratulations! Your organization \"", Str(e.org, "name"),
                "\" has been successfully created.\n\nOrganization Details:\n- Organization Name: ",
                Str(e.org, "name"), "\n- Workspace Name: ", Str(e, "workspaceName"),
                "\n- Organization ID: ", Str(e.org, "id"), "\n">>
              \o (IF Has(e.org, "domains")
                  THEN <<"- Domains: ">> \o JoinWith([j \in 1..Len(e.org.domains) |->
                                                        <<e.org.domains[j]>>], ", ")
                  ELSE <<"">>)
              \o <<"\n">>
              \o (IF Has(e.org, "trialEndDate") /\ e.org.trialEndDate # ""
                  THEN <<"- Trial ends: ", e.org.trialEndDate>>
                  ELSE <<"">>)
              \o <<"\n\nYou can now start inviting team members and setting up your workspace.\n\nBest regards,\nThe Team">>]

\* Evaluating the argument of sendEmailWithAutoConnection throws inside the
\* per-email try when it reads a property of an absent object.
BuildThrows(v, i) ==
    \/ TypeOf(v) = "user-invited-to-org" /\ ~Has(v.f, "issuer")
    \/ TypeOf(v) = "org-access-requested" /\ ~Has(v.f.orgAdmins[i], "orgs")

BuildEmail(v, i) ==
    CASE TypeOf(v) = "user-invited-to-org" -> InvitationEmail(v.f)
      [] TypeOf(v) = "org-access-requested" -> AccessRequestEmail(v.f, v.f.orgAdmins[i])
      [] OTHER -> WelcomeEmail(v.f)

SuccessLog(v, i) ==
    CASE TypeOf(v) = "user-invited-to-org" -> Log("info", "Invitation email sent successfully", "")
      [] TypeOf(v) = "org-access-requested" ->
            Log("info", "Access request notification sent to admin: ", Str(v.f.orgAdmins[i], "email"))
      [] OTHER -> Log("info", "Welcome email sent successfully", "")

FailureLog(v, i) ==
    CASE TypeOf(v) = "user-invited-to-org" -> Log("error", "Failed to send invitation email", "")
      [] TypeOf(v) = "org-access-requested" ->
            Log("error", "Failed to send access request notification to ", Str(v.f.orgAdmins[i], "email"))
      [] OTHER -> Log("error", "Failed to send welcome email", "")

\* ------------------------------------------------------------------ Membrane service

\* A getMembraneClient that signs a token and builds a client on every call.
getMembraneClientFresh ==
    IF MEMBRANE_WORKSPACE_SECRET = ""
    THEN [ok |-> FALSE, client |-> 0, tokens |-> tokens, built |-> FALSE]
    ELSE [ok |-> TRUE, client |-> tokens + 1, tokens |-> tokens + 1, built |-> TRUE]

\* The validity window of the token, in seconds (expiresIn of jwt.sign).
expiresIn == 7200

\* A getMembraneClient that signs a new token and replaces the client once
\* the token it holds has expired.
getMembraneClientRefreshing ==
    IF membrane # 0 /\ clock < iat + expiresIn
    THEN [ok |-> TRUE, client |-> membrane, tokens |-> tokens, built |-> FALSE]
    ELSE IF MEMBRANE_WORKSPACE_SECRET = ""
         THEN [ok |-> FALSE, client |-> 0, tokens |-> tokens, built |-> FALSE]
         ELSE [ok |-> TRUE, client |-> tokens + 1, tokens |-> tokens + 1, built |-> TRUE]

\* getMembraneClient: the module-level client, built with a fresh JWT on
\* first use; jwt.sign throws when the workspace secret is empty.
getMembraneClient ==
    IF membrane # 0 THEN [ok |-> TRUE, client |-> membrane, tokens |-> tokens, built |-> FALSE]
    ELSE IF MEMBRANE_WORKSPACE_SECRET = ""
         THEN [ok |-> FALSE, client |-> 0, tokens |-> tokens, built |-> FALSE]
         ELSE [ok |-> TRUE, client |-> tokens + 1, tokens |-> tokens + 1, built |-> TRUE]

\* The argument of action("send-email-fixed").run: the recipient is wrapped
\* in a list of one.
RunInput(emailData) ==
    [to |-> <<emailData.to>>, subject |-> emailData.subject, body |-> emailData.body]

\* The argument of connections.find.
FindQuery == [integrationKey |-> "gmail", limit |-> "1"]

Call(op, idx, conn, msg, client) ==
    [op |-> op, idx |-> idx, conn |-> conn, msg |-> msg, client |-> client,
     input |-> IF op = "run" THEN RunInput(msg) ELSE FindQuery,
     at |-> clock,
     out |-> "pending"]

Settle(calls, out) == [calls EXCEPT ![Len(calls)].out = out]

\* The handler moves to the next addressee, or out of the switch.
Advance(q) ==
    IF q.i < q.n THEN [q EXCEPT !.pc = "send", !.i = @ + 1, !.msg = NoMsg, !.conn = ""]
    ELSE [q EXCEPT !.pc = "ack", !.msg = NoMsg, !.conn = ""]

\* A per-email catch that lets the failure reach the outer catch.
HandlerCatchRethrows(q) ==
    Respond([q EXCEPT !.logs = Append(@, Log("error", "Error processing Membrane webhook", ""))],
            500, ErrorBody("Processing error"))

\* A catch around the whole loop: the first failure ends the notifications.
HandlerCatchAborts(q) ==
    [q EXCEPT !.logs = Append(@, FailureLog(JsonValues[q.event], q.i)),
              !.pc = "ack", !.msg = NoMsg, !.conn = ""]

\* The per-email catch block of the handler.
HandlerCatch(q) ==
    IF loggerFault = "failed" THEN OuterCatch(q)
    ELSE Advance([q EXCEPT !.logs = Append(@, FailureLog(JsonValues[q.event], q.i))])

\* sendEmailWithAutoConnection resolved: the handler's success log.
HandlerSent(q) ==
    IF loggerFault = "sent" THEN HandlerCatch(q)
    ELSE Advance([q EXCEPT !.logs = Append(@, SuccessLog(JsonValues[q.event], q.i))])

\* A sendEmail whose caller does not await the action run.
sendEmailNoAwait(q, conn) ==
    LET c == getMembraneClient
    IN  IF c.ok
        THEN HandlerSent([q EXCEPT !.conn = conn, !.built = @ \/ c.built,
                                   !.calls = Append(@, Call("run", q.i, conn, q.msg, c.client))])
        ELSE HandlerSent([q EXCEPT !.logs = @ \o
                 <<Log("error", "Error sending email via Membrane", ""),
                   Log("info", "Continuing webhook processing despite email failure", "")>>])

\* A sendEmail without its try/catch around getMembraneClient: a client that
\* cannot be built fails the request.
sendEmailThrows(q, conn) ==
    LET c == getMembraneClient
    IN  IF c.ok
        THEN [q EXCEPT !.pc = "run", !.conn = conn, !.built = @ \/ c.built,
                       !.calls = Append(@, Call("run", q.i, conn, q.msg, c.client))]
        ELSE Respond(q, 500, ErrorBody("Processing error"))

\* MembraneService.sendEmail up to its await: the client, then the action run.
\* A failure to get the client is caught inside sendEmail, which resolves.
sendEmail(q, conn) ==
    LET c == getMembraneClient
    IN  IF c.ok
        THEN [q EXCEPT !.pc = "run", !.conn = conn, !.built = @ \/ c.built,
                       !.calls = Append(@, Call("run", q.i, conn, q.msg, c.client))]
        ELSE HandlerSent([q EXCEPT !.logs = @ \o
                 <<Log("error", "Error sending email via Membrane", ""),
                   Log("info", "Continuing webhook processing despite email failure", "")>>])

\* MembraneService.getGmailConnection up to its await; a failure is logged
\* and thrown again, to the handler's catch.
getGmailConnection(q) ==
    LET c == getMembraneClient
    IN  IF c.ok
        THEN [q EXCEPT !.pc = "find", !.built = @ \/ c.built,
                       !.calls = Append(@, Call("find", q.i, "", NoMsg, c.client))]
        ELSE HandlerCatch([q EXCEPT !.logs = Append(@,
                 Log("error", "Error getting Gmail connection", ""))])

\* A sendEmailWithAutoConnection that ignores the configured identifier.
sendEmailAlwaysDiscover(q) == getGmailConnection(q)

sendEmailWithAutoConnection(q) ==
    IF GMAIL_CONNECTION_ID # "" THEN sendEmail(q, GMAIL_CONNECTION_ID)
    ELSE getGmailConnection(q)

\* The module-level client after a step that ended in an SDK call: what
\* getMembraneClient returned (and stored, on first use).
ClientAfter(q1) ==
    /\ membrane' = IF q1.pc \in {"find", "run"}
                   THEN getMembraneClient.client ELSE membrane
    /\ tokens' = IF q1.pc \in {"find", "run"}
                 THEN getMembraneClient.tokens ELSE tokens
    /\ iat' = IF q1.pc \in {"find", "run"} /\ getMembraneClient.built
              THEN clock ELSE iat

\* One email of the case: build the message, call the service, run to the
\* first await.
StartSend(r) ==
    /\ rq[r].pc = "send"
    /\ LET q == rq[r]
           v == JsonValues[q.event]
           q1 == IF BuildThrows(v, q.i) THEN HandlerCatch(q)
                 ELSE sendEmailWithAutoConnection(
                          [q EXCEPT !.msg = BuildEmail(v, q.i), !.attempts = @ + 1])
       IN  /\ rq' = [rq EXCEPT ![r] = q1]
           /\ ClientAfter(q1)
    /\ UNCHANGED <<config, handled>>

\* A discovery that returns an empty identifier when it finds no connection,
\* instead of throwing.
FindSettlesNoneSends(r) ==
    /\ rq[r].pc = "find"
    /\ \E out \in {"found", "none", "error"} :
          LET q == [rq[r] EXCEPT !.calls = Settle(@, out)]
              q1 == IF out = "found"
                    THEN sendEmail([q EXCEPT !.calls[Len(q.calls)].conn = "conn-found"],
                                   "conn-found")
                    ELSE IF out = "none" THEN sendEmail(q, "")
                    ELSE HandlerCatch([q EXCEPT !.logs = Append(@,
                             Log("error", "Error getting Gmail connection", ""))])
          IN  /\ rq' = [rq EXCEPT ![r] = q1]
              /\ ClientAfter(q1)
    /\ UNCHANGED <<config, handled>>

\* client.connections.find settles: a connection, an empty list, or a rejection.
FindSettles(r) ==
    /\ rq[r].pc = "find"
    /\ \E out \in {"found", "none", "error"} :
          LET q == [rq[r] EXCEPT !.calls = Settle(@, out)]
              q1 == IF out = "found"
                    THEN sendEmail([q EXCEPT !.calls[Len(q.calls)].conn = "conn-found"],
                                   "conn-found")
                    ELSE HandlerCatch([q EXCEPT !.logs = Append(@,
                             Log("error", "Error getting Gmail connection", ""))])
          IN  /\ rq' = [rq EXCEPT ![r] = q1]
              /\ ClientAfter(q1)
    /\ UNCHANGED <<config, handled>>

\* The send action settles; sendEmail logs either way and resolves.
RunSettles(r) ==
    /\ rq[r].pc = "run"
    /\ \E out \in {"ok", "error"} :
          LET q == [rq[r] EXCEPT !.calls = Settle(@, out)]
              q1 == IF out = "ok"
                    THEN [q EXCEPT !.logs = Append(@,
                             Log("info", "Email sent successfully via Membrane", ""))]
                    ELSE [q EXCEPT !.logs = @ \o
                             <<Log("error", "Error sending email via Membrane", ""),
                               Log("info", "Continuing webhook processing despite email failure", "")>>]
          IN  rq' = [rq EXCEPT ![r] = HandlerSent(q1)]
    /\ UNCHANGED <<config, membrane, tokens, iat, handled>>

\* An acknowledgement without a body.
AckNoContent(r) ==
    /\ rq[r].pc = "ack"
    /\ rq' = [rq EXCEPT ![r] = Respond(rq[r], 204, PlainText(""))]
    /\ UNCHANGED <<config, membrane, tokens, iat, handled>>

\* A handler that does not return after the switch: it parks the request
\* waiting for something no one resolves.
AckParked(r) ==
    /\ rq[r].pc = "ack"
    /\ rq' = [rq EXCEPT ![r].pc = "parked"]
    /\ UNCHANGED <<config, membrane, tokens, iat, handled>>

\* Step 5: acknowledge.
Ack(r) ==
    /\ rq[r].pc = "ack"
    /\ rq' = [rq EXCEPT ![r] = Respond(rq[r], 200, OkJson)]
    /\ UNCHANGED <<config, membrane, tokens, iat, handled>>

\* The host sends the response; the request's locals are gone.
Return(r) ==
    /\ rq[r].pc = "done"
    /\ rq' = [rq EXCEPT ![r] = IdleReq]
    /\ UNCHANGED <<config, membrane, tokens, iat, handled>>

Next ==
    \E r \in Slots :
        \/ Receive(r)
        \/ MethodCheck(r)
        \/ Verify(r)
        \/ Parse(r)
        \/ Dispatch(r)
        \/ StartSend(r)
        \/ FindSettles(r)
        \/ RunSettles(r)
        \/ Ack(r)
        \/ Return(r)

Spec == Init /\ [][Next]_vars

\* ------------------------------------------------------------------ overlapping requests
\* A Node process runs one handler invocation until its next await, so
\* invocations of several requests interleave at the awaits of the SDK
\* calls. The requests sent here are an invitation (one message) and an
\* access request with one admin, unsigned to a process without a webhook
\* secret and correctly signed to one with a secret; the same event may be
\* delivered more than once.

ConcBodies == {<<7>>, <<NumFixed + 2>>}

\* The header of the requests sent to overlap.
ConcSig(body) ==
    IF WEBHOOK_SECRET = "" THEN NoHeader
    ELSE SigOf(Hex(HmacSha256(WEBHOOK_SECRET, body)))

InitConc ==
    /\ platform \in Variants
    /\ WEBHOOK_SECRET \in {"", "k1"}
    /\ GMAIL_CONNECTION_ID \in {"", "conn-cfg"}
    /\ MEMBRANE_WORKSPACE_SECRET \in {"", "ws-secret"}
    /\ loggerFault = "none"
    /\ clock = 0
    /\ membrane = 0
    /\ tokens = 0
    /\ iat = 0
    /\ handled = 0
    /\ rq = [r \in Slots |-> IdleReq]

\* The host delivers a request while others may be in flight.
ReceiveConc(r) ==
    /\ rq[r].pc = "idle"
    /\ \A s \in Slots : s < r => rq[s].pc # "idle"
    /\ handled < MaxReqs
    /\ handled' = handled + 1
    /\ \E body \in ConcBodies : Deliver(r, body, ConcSig(body), "POST")
    /\ UNCHANGED <<config, membrane, tokens, iat>>

NextConc ==
    \E r \in Slots :
        \/ ReceiveConc(r)
        \/ MethodCheck(r)
        \/ Verify(r)
        \/ Parse(r)
        \/ Dispatch(r)
        \/ StartSend(r)
        \/ FindSettles(r)
        \/ RunSettles(r)
        \/ Ack(r)
        \/ Return(r)

SpecConc == InitConc /\ [][NextConc]_vars

\* ------------------------------------------------------------------ progress
\* The handler has no timer and no cancellation: between two awaits it runs to
\* the next one, and it resumes when the awaited Email Sender call settles.
\* The requests sent here are an invitation and access requests with every
\* number of admins up to MaxAdmins, unsigned, to a process without a webhook
\* secret, one after the other (overlapping requests are SpecConc's matter).
LiveBodies == {<<7>>} \cup { <<NumFixed + 1 + k>> : k \in 0..MaxAdmins }

InitLive ==
    /\ platform \in Variants
    /\ WEBHOOK_SECRET = ""
    /\ GMAIL_CONNECTION_ID \in {"", "conn-cfg"}
    /\ MEMBRANE_WORKSPACE_SECRET \in {"", "ws-secret"}
    /\ loggerFault = "none"
    /\ clock = 0
    /\ membrane = 0
    /\ tokens = 0
    /\ iat = 0
    /\ handled = 0
    /\ rq = [r \in Slots |-> IdleReq]

ReceiveLive(r) ==
    /\ \A s \in Slots : rq[s].pc = "idle"
    /\ handled < MaxReqs
    /\ handled' = handled + 1
    /\ \E body \in LiveBodies : Deliver(r, body, NoHeader, "POST")
    /\ UNCHANGED <<config, membrane, tokens, iat>>

NextLive ==
    \E r \in Slots :
        \/ ReceiveLive(r)
        \/ MethodCheck(r)
        \/ Verify(r)
        \/ Parse(r)
        \/ Dispatch(r)
        \/ StartSend(r)
        \/ FindSettles(r)
        \/ RunSettles(r)
        \/ Ack(r)
        \/ Return(r)

\* What a request in flight does next: a step of the handler, or the
\* settling of the Email Sender call it awaits. Exactly one is enabled until
\* the request is answered.
Step(r) ==
    \/ MethodCheck(r)
    \/ Verify(r)
    \/ Parse(r)
    \/ Dispatch(r)
    \/ StartSend(r)
    \/ FindSettles(r)
    \/ RunSettles(r)
    \/ Ack(r)

\* The steps of the handler are taken once enabled (Node runs the
\* continuation), and every pending Email Sender call settles.
FairLive == \A r \in Slots : WF_vars(Step(r))

SpecLive == InitLive /\ [][NextLive]_vars /\ FairLive

\* ------------------------------------------------------------------ time
\* Time passes between the steps of the process, in steps of half a validity
\* window, up to MaxTicks steps: a process that lives longer than its token.
\* The requests are those of SpecLive, to a process that can build the client.
MaxTicks == 3

InitClock ==
    /\ platform \in Variants
    /\ WEBHOOK_SECRET = ""
    /\ GMAIL_CONNECTION_ID \in {"", "conn-cfg"}
    /\ MEMBRANE_WORKSPACE_SECRET = "ws-secret"
    /\ loggerFault = "none"
    /\ clock = 0
    /\ membrane = 0
    /\ tokens = 0
    /\ iat = 0
    /\ handled = 0
    /\ rq = [r \in Slots |-> IdleReq]

Tick ==
    /\ clock < MaxTicks * (expiresIn \div 2)
    /\ clock' = clock + (expiresIn \div 2)
    /\ UNCHANGED <<platform, WEBHOOK_SECRET, GMAIL_CONNECTION_ID, MEMBRANE_WORKSPACE_SECRET,
                   loggerFault, membrane, tokens, iat, handled, rq>>

NextClock ==
    \/ Tick
    \/ NextLive

SpecClock == InitClock /\ [][NextClock]_vars

\* ------------------------------------------------------------------ a logger that throws
\* The handler's logger calls are not guarded. In this specification one call
\* site inside the switch throws whenever it is reached: the entry log of the
\* case ("entry"), the success log after an email ("sent", inside the
\* per-email try) or the failure log of the per-email catch ("failed").
LoggerSites == {"entry", "sent", "failed"}

InitLog ==
    /\ platform \in Variants
    /\ WEBHOOK_SECRET \in {"", "k1"}
    /\ GMAIL_CONNECTION_ID \in {"", "conn-cfg"}
    /\ MEMBRANE_WORKSPACE_SECRET = "ws-secret"
    /\ loggerFault \in LoggerSites
    /\ clock = 0
    /\ membrane = 0
    /\ tokens = 0
    /\ iat = 0
    /\ handled = 0
    /\ rq = [r \in Slots |-> IdleReq]

SpecLog == InitLog /\ [][Next]_vars

\* ------------------------------------------------------------------ event shapes

HasAll(rec, keys) == keys \subseteq DOMAIN rec

\* The fields the type declarations of the three events do not mark optional.
WellFormed(v) ==
    CASE TypeOf(v) = "user-invited-to-org" ->
            /\ HasAll(v.f, {"invitationUrl", "issuer", "user", "org"})
            /\ HasAll(v.f.issuer, {"name", "email"})
            /\ HasAll(v.f.user, {"email"})
            /\ HasAll(v.f.org, {"id", "name"})
      [] TypeOf(v) = "org-access-requested" ->
            /\ HasAll(v.f, {"user", "orgAdmins"})
            /\ HasAll(v.f.user, {"id", "email"})
            /\ \A i \in 1..Len(v.f.orgAdmins) :
                  /\ HasAll(v.f.orgAdmins[i], {"email", "orgs"})
                  /\ \A j \in 1..Len(v.f.orgAdmins[i].orgs) :
                        HasAll(v.f.orgAdmins[i].orgs[j], {"id", "name"})
      [] TypeOf(v) = "org-created" ->
            /\ HasAll(v.f, {"name", "workspaceName", "orgId", "org", "user"})
            /\ HasAll(v.f.org, {"id", "name"})
            /\ HasAll(v.f.user, {"email"})
      [] OTHER -> TRUE

\* ------------------------------------------------------------------ properties

\* The digest of a text under the configured secret, as the sender computes it.
Expected(text) == Hex(HmacSha256(WEBHOOK_SECRET, text))

\* A POST whose X-Signature is the digest of the bytes sent, a secret being set.
CorrectlySigned(q) ==
    /\ WEBHOOK_SECRET # ""
    /\ q.method = "POST"
    /\ q.sig = SigOf(Expected(q.wire))

Sends(q) == SelectSeq(q.calls, LAMBDA c : c.op = "run")

\* C1: in every variant the text handed to verifySignature is the body as it
\* came over the wire, and nothing has decoded the body before that.
C1_VerifiedOverRawBytes ==
    \A r \in Slots :
        rq[r].verified # "no" =>
            /\ rq[r].rawBody = rq[r].wire
            /\ rq[r].decoded # "beforeVerify"

\* C2: with a secret configured, a header equal to the lowercase hex digest of
\* the text verified is accepted.
C2_ValidSignatureAccepted ==
    \A r \in Slots :
        ( /\ rq[r].verified # "no"
          /\ WEBHOOK_SECRET # ""
          /\ rq[r].sig = SigOf(Expected(rq[r].rawBody)) )
        => rq[r].verified = "pass"

C2_Witness ==
    \E r \in Slots :
        /\ WEBHOOK_SECRET # ""
        /\ rq[r].verified = "pass"
        /\ rq[r].sig = SigOf(Expected(rq[r].rawBody))
        /\ Len(rq[r].rawBody) > 1

\* C3: with a secret configured, any header that is not exactly the lowercase
\* hex digest of the text verified is rejected (other length, other case,
\* other digest, no header).
C3_OtherSignatureRejected ==
    \A r \in Slots :
        ( /\ rq[r].verified # "no"
          /\ WEBHOOK_SECRET # ""
          /\ rq[r].sig # SigOf(Expected(rq[r].rawBody)) )
        => rq[r].verified = "fail"

C3_Witness ==
    \E r \in Slots :
        /\ WEBHOOK_SECRET # ""
        /\ rq[r].verified = "fail"
        /\ rq[r].sig.chars = UpperSeq(Expected(rq[r].rawBody))
        /\ rq[r].sig.chars # Expected(rq[r].rawBody)

\* C4: with a secret configured, a request whose X-Signature is absent or
\* empty fails verification and never reaches parsing, dispatch or a send.
C4_MissingHeaderRejected ==
    \A r \in Slots :
        ( /\ WEBHOOK_SECRET # ""
          /\ Falsy(rq[r].sig)
          /\ rq[r].pc # "idle" )
        => /\ rq[r].verified # "pass"
           /\ rq[r].pc \in {"method", "verify", "done"}
           /\ rq[r].event = 0
           /\ rq[r].calls = <<>>
           /\ rq[r].resp.status # 200

C4_Witness ==
    \E r \in Slots :
        /\ WEBHOOK_SECRET # ""
        /\ ~rq[r].sig.present
        /\ rq[r].verified = "fail"
        /\ rq[r].resp.status = 401

\* C5: with no secret configured every header passes verification and no
\* request is answered 401.
C5_OpenModeAcceptsAll ==
    WEBHOOK_SECRET = "" =>
        \A r \in Slots :
            /\ rq[r].verified # "fail"
            /\ rq[r].resp.status # 401
            /\ rq[r].pc \in {"parse", "dispatch", "send", "find", "run", "ack"}
                    => rq[r].verified = "pass"

C5_Witness ==
    \E r \in Slots :
        /\ WEBHOOK_SECRET = ""
        /\ rq[r].verified = "pass"
        /\ ~rq[r].sig.present
        /\ rq[r].pc = "parse"

\* C6: a failed verification ends the request with 401 and the JSON body
\* {error:"Invalid signature"}, whatever the body would parse to.
C6_InvalidSignatureIs401 ==
    \A r \in Slots :
        rq[r].verified = "fail" =>
            /\ rq[r].pc = "done"
            /\ rq[r].resp = [status |-> 401, body |-> ErrorJson("Invalid signature")]

\* C7: a request answered 401 or 400 has made no Email Sender call (no
\* discovery, no send) and has not built the client.
C7_RejectedHasNoSideEffect ==
    \A r \in Slots :
        (rq[r].pc = "done" /\ rq[r].resp.status \in {400, 401})
        => /\ rq[r].calls = <<>>
           /\ ~rq[r].built
           /\ rq[r].msg = NoMsg

C7_Witness ==
    \E r \in Slots :
        /\ rq[r].pc = "done"
        /\ rq[r].resp.status = 400
        /\ rq[r].verified = "pass"
        /\ rq[r].calls = <<>>
        /\ membrane # 0

\* C8: in every variant a correctly signed body that is not well-formed JSON
\* is answered 400 {error:"Invalid JSON"}, after the signature check passed.
C8_SignedMalformedIs400 ==
    \A r \in Slots :
        ( /\ rq[r].pc = "done"
          /\ CorrectlySigned(rq[r])
          /\ ~JSONparse(rq[r].wire).ok )
        => /\ rq[r].resp = [status |-> 400, body |-> ErrorJson("Invalid JSON")]
           /\ rq[r].verified = "pass"

\* C9: a correctly signed event of a known type that lacks a required field
\* is answered 400 {error:"Invalid JSON"}, with no send, and no message ever
\* carries the text of an absent field.
C9_MissingFieldIs400 ==
    \A r \in Slots :
        ( /\ CorrectlySigned(rq[r])
          /\ JSONparse(rq[r].wire).ok
          /\ TypeOf(JsonValues[JSONparse(rq[r].wire).v]) \in KnownTypes
          /\ ~WellFormed(JsonValues[JSONparse(rq[r].wire).v]) )
        => /\ rq[r].calls = <<>>
           /\ \A k \in 1..Len(rq[r].msg.body) : rq[r].msg.body[k] # "undefined"
           /\ rq[r].pc = "done" =>
                 rq[r].resp = [status |-> 400, body |-> ErrorJson("Invalid JSON")]

\* C10: a correctly signed JSON object whose type is none of the three known
\* tags is answered 200 {ok:true}, the tag logged, with no Email Sender call.
C10_UnknownTypeIs200 ==
    \A r \in Slots :
        ( /\ rq[r].pc = "done"
          /\ CorrectlySigned(rq[r])
          /\ JSONparse(rq[r].wire).ok
          /\ JsonValues[JSONparse(rq[r].wire).v].k = "object"
          /\ Has(JsonValues[JSONparse(rq[r].wire).v].f, "type")
          /\ TypeOf(JsonValues[JSONparse(rq[r].wire).v]) \notin KnownTypes )
        => /\ rq[r].resp = [status |-> 200, body |-> OkJson]
           /\ rq[r].calls = <<>>
           /\ \E k \in 1..Len(rq[r].logs) :
                 rq[r].logs[k] = Log("info", "Unhandled Membrane event type",
                                     TypeOf(JsonValues[JSONparse(rq[r].wire).v]))

\* ------------------------------------------------------------------ dispatch properties

\* The event of a request that got past parsing.
EventOf(q) == JsonValues[q.event]

\* The addressees of a known event, read off the event itself.
NAddr(v) == IF TypeOf(v) = "org-access-requested" THEN Len(v.f.orgAdmins) ELSE 1

FailedFinds(q) == SelectSeq(q.calls, LAMBDA c : c.op = "find" /\ c.out \in {"none", "error"})
FailedCalls(q) == SelectSeq(q.calls, LAMBDA c : c.out \in {"none", "error"})
ErrorLogs(q) == SelectSeq(q.logs, LAMBDA l : l.lvl = "error")

Ok200 == [status |-> 200, body |-> OkJson]

C12_SenderFailureIs200 ==
    \A r \in Slots :
        Len(FailedCalls(rq[r])) > 0 =>
            /\ rq[r].resp.status # 500
            /\ rq[r].pc = "done" => rq[r].resp = Ok200
            /\ Len(ErrorLogs(rq[r])) >= Len(FailedCalls(rq[r]))

C12_Witness ==
    \E r \in Slots :
        /\ rq[r].pc = "done"
        /\ rq[r].resp = Ok200
        /\ \E j, k \in 1..Len(rq[r].calls) :
              /\ rq[r].calls[j].op = "find" /\ rq[r].calls[j].out = "none"
              /\ rq[r].calls[k].op = "run" /\ rq[r].calls[k].out = "error"

\* C13: in an org-access-requested event every admin entry is attempted,
\* whatever happened to the others: at the end each entry has either a failed
\* Email Sender call of its own or exactly one send addressed to it (none
\* when the client cannot be built), and the response is 200 {ok:true}.
C13_EveryAdminAttempted ==
    \A r \in Slots :
        ( /\ rq[r].pc = "done"
          /\ rq[r].verified = "pass"
          /\ rq[r].event # 0
          /\ TypeOf(EventOf(rq[r])) = "org-access-requested"
          /\ WellFormed(EventOf(rq[r])) )
        => /\ rq[r].resp = Ok200
           /\ rq[r].attempts = Len(EventOf(rq[r]).f.orgAdmins)
           /\ \A i \in 1..Len(EventOf(rq[r]).f.orgAdmins) :
                 \/ MEMBRANE_WORKSPACE_SECRET = ""
                 \/ \E k \in 1..Len(rq[r].calls) :
                       /\ rq[r].calls[k].op = "find"
                       /\ rq[r].calls[k].idx = i
                       /\ rq[r].calls[k].out \in {"none", "error"}
                 \/ \E k \in 1..Len(rq[r].calls) :
                       /\ rq[r].calls[k].op = "run"
                       /\ rq[r].calls[k].idx = i
                       /\ rq[r].calls[k].msg.to = EventOf(rq[r]).f.orgAdmins[i].email
                       /\ rq[r].calls[k].out \in {"ok", "error"}

C13_Witness ==
    \E r \in Slots :
        /\ rq[r].pc = "done"
        /\ rq[r].event = NumValues
        /\ rq[r].resp = Ok200
        /\ Len(rq[r].calls) > 1
        /\ rq[r].calls[1].op = "find"
        /\ rq[r].calls[1].out = "error"
        /\ \E k \in 1..Len(rq[r].calls) :
              /\ rq[r].calls[k].op = "run"
              /\ rq[r].calls[k].idx = MaxAdmins
              /\ rq[r].calls[k].out = "ok"

\* C14: a correctly signed org-access-requested event with an empty
\* orgAdmins list makes no Email Sender call and is answered 200 {ok:true}.
C14_NoAdminsNoCalls ==
    \A r \in Slots :
        ( /\ rq[r].pc = "done"
          /\ CorrectlySigned(rq[r])
          /\ JSONparse(rq[r].wire).ok
          /\ JSONparse(rq[r].wire).v = NumFixed + 1 )
        => /\ rq[r].calls = <<>>
           /\ rq[r].resp = Ok200

\* C15: an exception in the dispatch logic outside the per-email try blocks
\* is answered 500 {error:"Processing error"}, and nothing else is.
C15_DispatchErrorIs500 ==
    \A r \in Slots :
        /\ ( /\ rq[r].pc = "done"
             /\ rq[r].event # 0
             /\ DispatchThrows(EventOf(rq[r])) )
           => rq[r].resp = [status |-> 500, body |-> ErrorJson("Processing error")]
        /\ rq[r].resp.status = 500
           => /\ rq[r].event # 0
              /\ DispatchThrows(EventOf(rq[r]))
              /\ rq[r].calls = <<>>

FourResponses ==
    { [status |-> 401, body |-> ErrorJson("Invalid signature")],
      [status |-> 400, body |-> ErrorJson("Invalid JSON")],
      [status |-> 500, body |-> ErrorJson("Processing error")],
      Ok200 }

ResponsesOf(variant) ==
    CASE variant = "azure" ->
            { [status |-> 401, body |-> PlainText("Invalid signature")],
              [status |-> 400, body |-> PlainText("Invalid JSON")],
              [status |-> 500, body |-> PlainText("Processing error")],
              Ok200 }
      [] variant = "aws" -> FourResponses
      [] OTHER ->
            FourResponses \cup
            { [status |-> 405, body |-> ErrorJson("Method not allowed")],
              [status |-> 500, body |-> ErrorJson("Internal server error")],
              [status |-> 400, body |-> PlainText("Bad Request")] }

C17_ResponseAfterSendsSettle ==
    \A r \in Slots : \A k \in 1..Len(rq[r].calls) :
        rq[r].calls[k].out = "pending" =>
            /\ rq[r].resp = NoResp
            /\ k = Len(rq[r].calls)
            /\ rq[r].pc = rq[r].calls[k].op

C17_Witness ==
    \E r \in Slots :
        /\ rq[r].pc = "done"
        /\ rq[r].resp = Ok200
        /\ Len(rq[r].calls) = 2 * MaxAdmins
        /\ \A k \in 1..Len(rq[r].calls) : rq[r].calls[k].out # "pending"

\* C18: however the requests of one process follow each other or interleave,
\* at most one token is generated and one client built, and every discovery
\* and send goes through that client.
C18_ClientBuiltOnce ==
    /\ tokens <= 1
    /\ membrane = tokens
    /\ Cardinality({r \in Slots : rq[r].built}) <= 1
    /\ \A r \in Slots : \A k \in 1..Len(rq[r].calls) :
          rq[r].calls[k].client = 1 /\ membrane = 1

C18_Witness ==
    \E r, s \in Slots :
        /\ r # s
        /\ rq[r].pc \in {"find", "run"}
        /\ rq[s].pc \in {"find", "run"}
        /\ rq[r].built
        /\ Len(rq[s].calls) > 1
        /\ tokens = 1

\* C19: with a connection identifier configured, discovery is never called
\* and every send uses that identifier; with none, every send directly
\* follows a discovery made for the same message and uses the identifier it
\* returned.
C19_DiscoveryOnlyWhenUnconfigured ==
    \A r \in Slots : \A k \in 1..Len(rq[r].calls) :
        IF GMAIL_CONNECTION_ID # ""
        THEN rq[r].calls[k].op = "run" /\ rq[r].calls[k].conn = GMAIL_CONNECTION_ID
        ELSE rq[r].calls[k].op = "run" =>
                /\ k > 1
                /\ rq[r].calls[k - 1].op = "find"
                /\ rq[r].calls[k - 1].out = "found"
                /\ rq[r].calls[k - 1].idx = rq[r].calls[k].idx
                /\ rq[r].calls[k].conn = rq[r].calls[k - 1].conn
                /\ rq[r].calls[k].conn # ""

C19_Witness ==
    \E r \in Slots :
        /\ GMAIL_CONNECTION_ID = ""
        /\ Len(rq[r].calls) = 2
        /\ rq[r].calls[2].op = "run"
        /\ rq[r].calls[2].conn = "conn-found"

\* The response as a function of the request alone: the method, the bytes
\* of the body and the X-Signature header, under the configured secret.
ResponseOf(method, wire, sig) ==
    LET gcp == platform = "gcp"
        fp == FrameworkBodyParser(wire)
    IN  IF gcp /\ ~fp.ok THEN [status |-> 400, body |-> PlainText("Bad Request")]
        ELSE IF gcp /\ method # "POST"
        THEN [status |-> 405, body |-> ErrorJson("Method not allowed")]
        ELSE LET raw == IF gcp THEN JSONstringify(fp.v) ELSE wire
                 p == IF gcp THEN fp ELSE JSONparse(wire)
             IN  IF ~verifySignature(raw, sig, WEBHOOK_SECRET)
                 THEN [status |-> 401, body |-> ErrorBody("Invalid signature")]
                 ELSE IF ~p.ok
                 THEN [status |-> 400, body |-> ErrorBody("Invalid JSON")]
                 ELSE IF DispatchThrows(JsonValues[p.v])
                 THEN [status |-> 500, body |-> ErrorBody("Processing error")]
                 ELSE Ok200

\* C20 as stated: the response is determined by the raw body, the signature
\* header and the configured secret. Every body and header can arrive in a
\* POST, so such a function has to be the one POST requests follow.
C20_ResponseIsFunctionOfBodyAndHeader ==
    \A r \in Slots :
        rq[r].pc = "done" =>
            rq[r].resp = ResponseOf("POST", rq[r].wire, rq[r].sig)

\* C20 amended: the response of a request is determined by its method, raw
\* body and signature header and the configured secret: not by the requests
\* before it, not by whether the client exists, not by how the Email Sender
\* calls end.
C20_ResponseIsFunctionOfRequest ==
    \A r \in Slots :
        rq[r].pc = "done" =>
            rq[r].resp = ResponseOf(rq[r].method, rq[r].wire, rq[r].sig)

C20_Witness ==
    \E r \in Slots :
        /\ rq[r].pc = "done"
        /\ handled = 2
        /\ membrane = 0
        /\ MEMBRANE_WORKSPACE_SECRET = ""
        /\ rq[r].attempts > 0
        /\ rq[r].resp = Ok200

\* ------------------------------------------------------------------ message properties

\* The address the event names for its idx-th message.
AddresseeOf(v, idx) ==
    IF TypeOf(v) = "org-access-requested" THEN v.f.orgAdmins[idx].email
    ELSE v.f.user.email

Contains(text, piece) == \E j \in 1..Len(text) : text[j] = piece

\* C22: every send action of an event of the declared shapes carries a list
\* of exactly one recipient, user.email for an invitation and for a welcome
\* and the entry's own email for an access request; the subject of an
\* invitation and of a welcome contains org.name.
C22_OneRecipientFromEvent ==
    \A r \in Slots : \A k \in 1..Len(rq[r].calls) :
        ( /\ rq[r].calls[k].op = "run"
          /\ WellFormed(EventOf(rq[r])) )
        => /\ rq[r].calls[k].input.to =
                 <<AddresseeOf(EventOf(rq[r]), rq[r].calls[k].idx)>>
           /\ TypeOf(EventOf(rq[r])) # "org-access-requested"
                 => Contains(rq[r].calls[k].input.subject, EventOf(rq[r]).f.org.name)

C22_Witness ==
    \E r \in Slots :
        /\ rq[r].pc = "done"
        /\ rq[r].event = 12
        /\ Len(rq[r].calls) = 1
        /\ rq[r].calls[1].op = "run"
        /\ rq[r].calls[1].out = "ok"
        /\ rq[r].calls[1].input.to = <<"a@x.com">>
        /\ Contains(rq[r].calls[1].input.subject, "Acme Inc")
        /\ rq[r].resp = Ok200

\* The texts that open the optional lines, and the placeholders.
TrialLineInvite == "Note: This organization's trial ends on "
TrialLineWelcome == "- Trial ends: "
DomainsLine == "- Domains: "

\* When an optional field counts as present: by being there, or by being
\* there and not the empty string.
Shown(rec, key, byPresence) == Has(rec, key) /\ (byPresence \/ rec[key] # "")

\* What C23 says of a message body.
OptionalRendering(v, body, byPresence) ==
    /\ ~Contains(body, "undefined")
    /\ TypeOf(v) = "user-invited-to-org" =>
          /\ Contains(body, TrialLineInvite) <=> Shown(v.f.org, "trialEndDate", byPresence)
          /\ Shown(v.f.org, "trialEndDate", byPresence) => Contains(body, v.f.org.trialEndDate)
    /\ TypeOf(v) = "org-created" =>
          /\ Contains(body, TrialLineWelcome) <=> Shown(v.f.org, "trialEndDate", byPresence)
          /\ Shown(v.f.org, "trialEndDate", byPresence) => Contains(body, v.f.org.trialEndDate)
          /\ Contains(body, DomainsLine) <=> Has(v.f.org, "domains")
          /\ Has(v.f.org, "domains") =>
                /\ \A j \in 1..Len(v.f.org.domains) : Contains(body, v.f.org.domains[j])
                /\ Len(SelectSeq(body, LAMBDA t : t = ", ")) =
                      IF Len(v.f.org.domains) = 0 THEN 0 ELSE Len(v.f.org.domains) - 1
          /\ Contains(body, "there") <=> ~Shown(v.f.user, "name", byPresence)
          /\ Shown(v.f.user, "name", byPresence) => Contains(body, v.f.user.name)
    /\ TypeOf(v) = "org-access-requested" =>
          /\ Contains(body, "Not provided") <=> ~Shown(v.f.user, "name", byPresence)
          /\ Shown(v.f.user, "name", byPresence) => Contains(body, v.f.user.name)

\* C23 as stated: in every message of an event of the declared shapes the
\* trial line, the domains line and the name appear exactly when the field
\* is present, and no absent optional field reads "undefined".
C23_OptionalIffPresent ==
    \A r \in Slots : \A k \in 1..Len(rq[r].calls) :
        ( /\ rq[r].calls[k].op = "run"
          /\ WellFormed(EventOf(rq[r])) )
        => OptionalRendering(EventOf(rq[r]), rq[r].calls[k].input.body, TRUE)

\* C23 amended: the trial line and the name appear exactly when the field is
\* present and not the empty string (an empty trialEndDate gives no line, an
\* empty name gives the placeholder); the domains line appears exactly when
\* domains is present, an empty list included.
C23_OptionalIffNonEmpty ==
    \A r \in Slots : \A k \in 1..Len(rq[r].calls) :
        ( /\ rq[r].calls[k].op = "run"
          /\ WellFormed(EventOf(rq[r])) )
        => OptionalRendering(EventOf(rq[r]), rq[r].calls[k].input.body, FALSE)

C23_Witness ==
    \E r \in Slots :
        /\ rq[r].pc = "done"
        /\ rq[r].event = 20
        /\ Len(rq[r].calls) > 0
        /\ rq[r].calls[Len(rq[r].calls)].op = "run"
        /\ Contains(rq[r].calls[Len(rq[r].calls)].input.body, "there")
        /\ Contains(rq[r].calls[Len(rq[r].calls)].input.body, DomainsLine)
        /\ ~Contains(rq[r].calls[Len(rq[r].calls)].input.body, TrialLineWelcome)

\* The names and identifiers of the organizations of every entry of an event.
OrgWords(v) ==
    UNION { UNION { {v.f.orgAdmins[i].orgs[j].name, v.f.orgAdmins[i].orgs[j].id} :
                    j \in 1..Len(v.f.orgAdmins[i].orgs) } :
            i \in 1..Len(v.f.orgAdmins) }

\* name, id, name, id, ... of a list of organizations, in list order.
NamesAndIds(orgs) ==
    [m \in 1..(2 * Len(orgs)) |->
        IF m % 2 = 1 THEN orgs[(m + 1) \div 2].name ELSE orgs[m \div 2].id]

\* C24: the organizations named in the message to an admin are those of the
\* admin's own entry, each once with its name and id, in list order, one
\* item line each, and the message names the requester's email and id.
C24_OwnOrganizationsOnly ==
    \A r \in Slots : \A k \in 1..Len(rq[r].calls) :
        ( /\ rq[r].calls[k].op = "run"
          /\ TypeOf(EventOf(rq[r])) = "org-access-requested"
          /\ WellFormed(EventOf(rq[r])) )
        => LET v == EventOf(rq[r])
               body == rq[r].calls[k].input.body
               orgs == v.f.orgAdmins[rq[r].calls[k].idx].orgs
           IN  /\ SelectSeq(body, LAMBDA t : t \in OrgWords(v)) = NamesAndIds(orgs)
               /\ Len(SelectSeq(body, LAMBDA t : t = "- ")) = Len(orgs)
               /\ Contains(body, v.f.user.email)
               /\ Contains(body, v.f.user.id)

C24_Witness ==
    \E r \in Slots :
        /\ rq[r].pc = "done"
        /\ rq[r].event = NumValues
        /\ Len(rq[r].calls) = MaxAdmins
        /\ rq[r].calls[2].op = "run"
        /\ rq[r].calls[2].idx = 2
        /\ Contains(rq[r].calls[2].input.body, "Beta LLC")
        /\ ~Contains(rq[r].calls[2].input.body, "Acme Inc")
        /\ Contains(rq[r].calls[1].input.body, "Acme Inc")

\* ------------------------------------------------------------------ comparison

\* The byte length of a header as verifySignature measures it.
ByteLen(sig) == Len(BufferFrom(sig.chars))

\* C25: verifySignature ends with true or false for every request; the
\* comparison is invoked only on two buffers of equal length, the header's
\* and the digest's, and a header of another byte length is rejected without
\* the comparison being invoked.
C25_ComparedOnlyAtEqualLength ==
    \A r \in Slots :
        rq[r].verified # "no" =>
            /\ rq[r].verified \in {"pass", "fail"}
            /\ rq[r].cmp # <<>> =>
                  /\ rq[r].cmp[1] = rq[r].cmp[2]
                  /\ rq[r].cmp[1] = ByteLen(rq[r].sig)
                  /\ rq[r].cmp[2] = Len(Expected(rq[r].rawBody))
            /\ ( /\ WEBHOOK_SECRET # ""
                 /\ ~Falsy(rq[r].sig)
                 /\ ByteLen(rq[r].sig) # Len(Expected(rq[r].rawBody)) )
               => rq[r].verified = "fail" /\ rq[r].cmp = <<>>
            /\ ( /\ WEBHOOK_SECRET # ""
                 /\ ~Falsy(rq[r].sig)
                 /\ ByteLen(rq[r].sig) = Len(Expected(rq[r].rawBody)) )
               => rq[r].cmp # <<>>

C25_Witness ==
    \E r \in Slots :
        /\ rq[r].pc = "done"
        /\ WEBHOOK_SECRET # ""
        /\ rq[r].sig.present
        /\ Len(rq[r].sig.chars) = 2 * DigestLen + 1
        /\ rq[r].verified = "fail"
        /\ rq[r].cmp = <<>>
        /\ rq[r].resp.status = 401

\* ------------------------------------------------------------------ repeated delivery

\* Two requests that brought the same known event and both passed
\* verification and were answered.
SameEventTwice(r, s) ==
    /\ r # s
    /\ rq[r].pc = "done" /\ rq[s].pc = "done"
    /\ rq[r].wire = rq[s].wire
    /\ rq[r].verified = "pass" /\ rq[s].verified = "pass"
    /\ rq[r].event # 0 /\ rq[s].event # 0
    /\ TypeOf(EventOf(rq[r])) \in KnownTypes

DiscoveryErrorLogs(q) ==
    SelectSeq(q.logs, LAMBDA l : l = Log("error", "Error getting Gmail connection", ""))

\* The handler's own failure log for the idx-th message.
HandlerFailureLogged(q, idx) ==
    \E j \in 1..Len(q.logs) : q.logs[j] = FailureLog(EventOf(q), idx)

\* C27: a discovery that finds no connection happens only with no identifier
\* configured; it fails: no send action is invoked for that message, the
\* service and the handler each log the failure, every later admin of the
\* list is still attempted, and the request is answered 200 {ok:true}.
C27_NoConnectionNoSend ==
    \A r \in Slots : \A k \in 1..Len(rq[r].calls) :
        ( rq[r].calls[k].op = "find" /\ rq[r].calls[k].out = "none" ) =>
            /\ GMAIL_CONNECTION_ID = ""
            /\ \A j \in 1..Len(rq[r].calls) :
                  rq[r].calls[j].op = "run" => rq[r].calls[j].idx # rq[r].calls[k].idx
            /\ Len(DiscoveryErrorLogs(rq[r])) >= Len(FailedFinds(rq[r]))
            /\ HandlerFailureLogged(rq[r], rq[r].calls[k].idx)
            /\ rq[r].resp.status \in {0, 200}
            /\ rq[r].pc = "done" =>
                  /\ rq[r].resp = Ok200
                  /\ WellFormed(EventOf(rq[r])) => rq[r].attempts = rq[r].n
                  /\ \A i \in 1..NAddr(EventOf(rq[r])) :
                        ( i > rq[r].calls[k].idx /\ Has(EventOf(rq[r]).f.orgAdmins[i], "orgs") )
                        => \E j \in 1..Len(rq[r].calls) : j > k /\ rq[r].calls[j].idx = i

C27_Witness ==
    \E r \in Slots :
        /\ rq[r].pc = "done"
        /\ rq[r].event = NumValues
        /\ rq[r].resp = Ok200
        /\ Len(rq[r].calls) > 2
        /\ rq[r].calls[1].op = "find"
        /\ rq[r].calls[1].out = "none"
        /\ rq[r].calls[2].idx = 2
        /\ rq[r].calls[3].op = "run"

\* ------------------------------------------------------------------ logger failure

\* C28: with a logger call that throws, every request is answered with the
\* status it gets without the fault, and every addressee of an event of the
\* declared shapes still gets its Email Sender call.
C28_LoggerFailureHarmless ==
    \A r \in Slots :
        ( rq[r].pc = "done" /\ loggerFault # "none" ) =>
            /\ rq[r].resp.status = ResponseOf(rq[r].method, rq[r].wire, rq[r].sig).status
            /\ ( /\ rq[r].event # 0
                 /\ TypeOf(EventOf(rq[r])) \in KnownTypes
                 /\ WellFormed(EventOf(rq[r])) )
               => rq[r].attempts = NAddr(EventOf(rq[r]))

\* ------------------------------------------------------------------ termination

\* C29: provided every Email Sender call settles, every request received is
\* eventually answered, whatever the number of admins; and no request is
\* answered while one of its calls is pending: the response waits for the
\* last call.
C29_EveryRequestAnswered ==
    /\ \A r \in Slots : (rq[r].pc # "idle") ~> (rq[r].pc = "done" /\ rq[r].resp.status # 0)
    /\ [](\A r \in Slots : \A k \in 1..Len(rq[r].calls) :
             rq[r].calls[k].out = "pending" => rq[r].resp.status = 0)

C29_Witness ==
    \E r \in Slots :
        /\ rq[r].pc = "done"
        /\ rq[r].event = NumValues
        /\ rq[r].resp = Ok200
        /\ rq[r].attempts = MaxAdmins
        /\ Len(rq[r].calls) = MaxAdmins
        /\ \A k \in 1..Len(rq[r].calls) :
              rq[r].calls[k].op = "find" /\ rq[r].calls[k].out = "error"

\* ------------------------------------------------------------------ per-email catch

\* The failure logs of the per-email catch blocks of the handler.
CatchLogs(q) ==
    SelectSeq(q.logs, LAMBDA l :
        /\ l.lvl = "error"
        /\ l.msg \in {"Failed to send invitation email",
                      "Failed to send access request notification to ",
                      "Failed to send welcome email"})

\* C30: the per-email catch is entered exactly once per failed discovery and
\* never otherwise: never with a configured connection, and never for a
\* message whose send action was started, however that action ended or
\* whether the client could be built.
C30_CatchOnlyOnDiscoveryFailure ==
    \A r \in Slots :
        /\ Len(CatchLogs(rq[r])) = Len(DiscoveryErrorLogs(rq[r]))
        /\ GMAIL_CONNECTION_ID # "" => CatchLogs(rq[r]) = <<>>
        /\ \A k \in 1..Len(rq[r].calls) :
              rq[r].calls[k].op = "run" =>
                  ~HandlerFailureLogged(rq[r], rq[r].calls[k].idx)

\* ------------------------------------------------------------------ success log

\* The handler's success log for the idx-th message is among the logs.
HandlerSuccessLogged(q, idx) ==
    \E j \in 1..Len(q.logs) : q.logs[j] = SuccessLog(EventOf(q), idx)

\* C31: the handler's success log for a message is there only if the send
\* action for that message was run and succeeded.
C31_SuccessLogOnlyAfterSuccess ==
    \A r \in Slots :
        ( rq[r].event # 0 /\ rq[r].n > 0 ) =>
            \A idx \in 1..rq[r].n :
                HandlerSuccessLogged(rq[r], idx) =>
                    \E k \in 1..Len(rq[r].calls) :
                        /\ rq[r].calls[k].op = "run"
                        /\ rq[r].calls[k].idx = idx
                        /\ rq[r].calls[k].out = "ok"

\* ------------------------------------------------------------------ token lifetime

\* C32: once the client exists, the module-level reference, the number of
\* tokens signed and the token's issue time never change again, and every
\* discovery and send of the process goes through that one client, the calls
\* made after the token's validity window has ended included.
C32_TokenNeverRefreshed ==
    /\ [](/\ tokens <= 1
          /\ membrane = tokens
          /\ \A r \in Slots : \A k \in 1..Len(rq[r].calls) :
                /\ rq[r].calls[k].client = membrane
                /\ rq[r].calls[k].at >= iat)
    /\ [][membrane # 0 => (membrane' = membrane /\ tokens' = tokens /\ iat' = iat)]_vars

C32_Witness ==
    \E r \in Slots :
        /\ handled = MaxReqs
        /\ tokens = 1
        /\ Len(rq[r].calls) = 2
        /\ rq[r].calls[1].op = "find"
        /\ rq[r].calls[2].op = "run"
        /\ rq[r].calls[2].out = "ok"
        /\ rq[r].calls[1].at >= iat + expiresIn
        /\ rq[r].calls[2].client = membrane
        /\ ~rq[r].built

\* ------------------------------------------------------------------ values without a type

\* C33: on AWS and Azure a correctly signed body that is the literal null is
\* answered 500, and a correctly signed body that is any other JSON value
\* without a known type (a number, a string, a boolean, an array, an object
\* without `type` or with another one) takes the default arm: the unhandled
\* type is logged, no Email Sender call is made and the answer is 200
\* {ok:true}.
C33_NullIs500OthersAre200 ==
    \A r \in Slots :
        ( /\ platform \in {"aws", "azure"}
          /\ rq[r].pc = "done"
          /\ CorrectlySigned(rq[r])
          /\ JSONparse(rq[r].wire).ok )
        => LET v == JsonValues[JSONparse(rq[r].wire).v]
           IN  /\ v.k = "null" =>
                     /\ rq[r].resp.status = 500
                     /\ rq[r].calls = <<>>
                     /\ rq[r].attempts = 0
               /\ ( v.k # "null" /\ TypeOf(v) \notin KnownTypes ) =>
                     /\ rq[r].resp = Ok200
                     /\ rq[r].calls = <<>>
                     /\ rq[r].attempts = 0
                     /\ \E j \in 1..Len(rq[r].logs) :
                           rq[r].logs[j] = Log("info", "Unhandled Membrane event type",
                                               TypeOf(v))

C33_Witness ==
    \E r \in Slots :
        /\ platform = "aws"
        /\ rq[r].pc = "done"
        /\ CorrectlySigned(rq[r])
        /\ rq[r].wire = <<1>>
        /\ rq[r].resp = [status |-> 500, body |-> ErrorJson("Processing error")]
        /\ handled = MaxReqs

\* ------------------------------------------------------------------ method

\* C34: on Google Cloud a request with a method other than POST that reaches
\* the function is answered 405 {error:"Method not allowed"} by the
\* function's first step: the signature is not verified, nothing is compared,
\* parsed, logged or sent, and the request builds no client.
C34_NonPostIs405 ==
    \A r \in Slots :
        ( /\ platform = "gcp"
          /\ rq[r].pc \notin {"idle", "method"}
          /\ rq[r].method # "POST"
          /\ FrameworkBodyParser(rq[r].wire).ok )
        => /\ rq[r].pc = "done"
           /\ rq[r].resp = [status |-> 405, body |-> ErrorJson("Method not allowed")]
           /\ rq[r].verified = "no"
           /\ rq[r].cmp = <<>>
           /\ rq[r].event = 0
           /\ rq[r].calls = <<>>
           /\ rq[r].attempts = 0
           /\ rq[r].logs = <<>>
           /\ ~rq[r].built

C34_Witness ==
    \E r \in Slots :
        /\ platform = "gcp"
        /\ rq[r].pc = "done"
        /\ rq[r].method = "GET"
        /\ WEBHOOK_SECRET # ""
        /\ rq[r].wire = <<7>>
        /\ rq[r].sig = SigOf(Expected(rq[r].wire))
        /\ rq[r].resp.status = 405
        /\ membrane = 0

====
